---------------------------- MODULE Spec2Model ----------------------------
(***************************************************************************)
(* A model of the CAT62 ASTERIX codec of backend/asterix_wrapper.py (and   *)
(* the fixed-point helpers of backend/utils.py).                           *)
(*                                                                         *)
(* The codec is a set of pure functions over byte strings.  Each function  *)
(* is an operator computed the way the Python computes it; the state       *)
(* machine feeds inputs drawn from bounded sets through the functions, one *)
(* action per function call.                                               *)
(*                                                                         *)
(* Conventions.                                                            *)
(*  - A bytes object is a sequence of integers 0..255.  Offsets are the    *)
(*    0-based offsets of the Python; the byte at offset o of data is       *)
(*    data[o + 1].                                                         *)
(*  - A dict is a function from its keys (strings) to values;              *)
(*    dict.update(d) is d @@ record.                                       *)
(*  - A raised exception is a record [exc |-> <type>, ...] carrying the    *)
(*    parts of its message; a normal return of parse_datablock is          *)
(*    [exc |-> "none", records |-> <list>].                                *)
(***************************************************************************)
EXTENDS Integers, Sequences, FiniteSets, TLC

VARIABLES
    phase,   \* position in the call chain being exercised
    inp,     \* the caller's input to the first call of the chain
    wire,    \* the encoded bytes (or the list of encoded records)
    out      \* the value returned (or the exception raised) by the last call

vars == <<phase, inp, wire, out>>

\* Placeholder for "not yet computed".
None == "None"

(***************************************************************************)
(* Integer helpers standing for Python's operators on ints.                *)
(***************************************************************************)

\* 1 << n
Shl1(n) == 2 ^ n

\* bool(x & (1 << n)) for x >= 0
TestBit(x, n) == (x \div Shl1(n)) % 2 = 1

\* x | w for a single-bit weight w
BitOr(x, w) == IF (x \div w) % 2 = 1 THEN x ELSE x + w

\* max / min of a non-empty finite set of integers
SetMax(S) == CHOOSE m \in S : \A x \in S : x <= m

SetMin(S) == CHOOSE m \in S : \A x \in S : m <= x

\* bytes.hex().upper()
HexDigits == <<"0", "1", "2", "3", "4", "5", "6", "7",
               "8", "9", "A", "B", "C", "D", "E", "F">>

HexByte(b) == HexDigits[(b \div 16) + 1] \o HexDigits[(b % 16) + 1]

RECURSIVE HexUpper(_)
HexUpper(bs) ==
    IF bs = <<>> THEN "" ELSE HexByte(Head(bs)) \o HexUpper(Tail(bs))

\* data[lo:hi] for 0 <= lo <= hi
Slice(data, lo, hi) ==
    LET h == IF hi > Len(data) THEN Len(data) ELSE hi
    IN  IF lo >= h THEN <<>> ELSE SubSeq(data, lo + 1, h)

(***************************************************************************)
(* CAT62 constants and the UAP table.                                      *)
(***************************************************************************)

CAT62_CATEGORY == 62

UAP_FRN ==
    ("I062/010" :> 1) @@ ("I062/040" :> 2) @@ ("I062/070" :> 3) @@
    ("I062/105" :> 4) @@ ("I062/100" :> 5) @@ ("I062/185" :> 6) @@
    ("I062/210" :> 7) @@ ("I062/060" :> 8) @@ ("I062/245" :> 9) @@
    ("I062/380" :> 10) @@ ("I062/136" :> 12) @@ ("I062/130" :> 13) @@
    ("I062/220" :> 14)

(***************************************************************************)
(* build_fspec.  items_present is modelled as the set of the names in the  *)
(* list: the code folds the list into a set of FRNs at once.               *)
(***************************************************************************)

\* frns: the FRNs of the names that are in the UAP table
fspec_frns(items_present) ==
    {UAP_FRN[name] : name \in (items_present \cap DOMAIN UAP_FRN)}

\* math.ceil(max_frn / 7)
num_octets_for(max_frn) == (max_frn + 6) \div 7

bit_weight_off_by_one(frn) == Shl1(6 - ((frn - 1) % 7))

\* bit_weight = 1 << (7 - (frn - 1) % 7)
bit_weight(frn) == Shl1(7 - ((frn - 1) % 7))

\* octet_idx = (frn - 1) // 7
octet_idx(frn) == (frn - 1) \div 7

\* octets[k] after the loop over frns: the OR of the weights of the FRNs
\* that fall in octet k, folded over the FRNs in any order.
RECURSIVE OrWeights(_, _)
OrWeights(acc, fs) ==
    IF fs = {} THEN acc
    ELSE LET f == CHOOSE x \in fs : TRUE
         IN  OrWeights(BitOr(acc, bit_weight(f)), fs \ {f})

fx_on_every_octet(i, num_octets) == 1

\* the FX bit of octet i: set for i in range(num_octets - 1)
fx_bit(i, num_octets) == IF i < num_octets - 1 THEN 1 ELSE 0

build_fspec_no_octet(items_present) ==
    LET frns == fspec_frns(items_present)
    IN  IF frns = {} THEN <<>>
        ELSE LET num_octets == num_octets_for(SetMax(frns))
             IN  [k \in 1..num_octets |->
                    LET bits == OrWeights(0, {f \in frns : octet_idx(f) = k - 1})
                    IN  IF fx_bit(k - 1, num_octets) = 1
                        THEN BitOr(bits, 1) ELSE bits]

build_fspec(items_present) ==
    LET frns == fspec_frns(items_present)
    IN  IF frns = {} THEN <<0>>
        ELSE LET num_octets == num_octets_for(SetMax(frns))
             IN  [k \in 1..num_octets |->
                    LET bits == OrWeights(0, {f \in frns : octet_idx(f) = k - 1})
                    IN  IF fx_bit(k - 1, num_octets) = 1
                        THEN BitOr(bits, 1) ELSE bits]

(***************************************************************************)
(* _parse_fspec(data, offset).  data[offset] past the end of data raises   *)
(* IndexError.  Returns [frns, offset] or the exception.                   *)
(***************************************************************************)

IndexError == [exc |-> "IndexError"]

RECURSIVE octet_frns_lsb_first(_, _, _)
octet_frns_lsb_first(byte, octet_index, bit_pos) ==
    IF bit_pos < 1 THEN <<>>
    ELSE (IF TestBit(byte, bit_pos)
          THEN <<octet_index * 7 + bit_pos>> ELSE <<>>)
         \o octet_frns_lsb_first(byte, octet_index, bit_pos - 1)

\* the inner for loop: bit_pos = 7 down to 1, appending
\* frn = octet_index * 7 + (8 - bit_pos) for each set bit
RECURSIVE octet_frns(_, _, _)
octet_frns(byte, octet_index, bit_pos) ==
    IF bit_pos < 1 THEN <<>>
    ELSE (IF TestBit(byte, bit_pos)
          THEN <<octet_index * 7 + (8 - bit_pos)>> ELSE <<>>)
         \o octet_frns(byte, octet_index, bit_pos - 1)

\* the while True loop
RECURSIVE parse_fspec_loop(_, _, _, _)
parse_fspec_loop(data, offset, octet_index, active_frns) ==
    IF offset >= Len(data) THEN IndexError
    ELSE LET byte == data[offset + 1]
             frns == active_frns \o octet_frns(byte, octet_index, 7)
             fx   == byte % 2
         IN  IF fx = 0
             THEN [exc |-> "none", frns |-> frns, offset |-> offset + 1]
             ELSE parse_fspec_loop(data, offset + 1, octet_index + 1, frns)

parse_fspec(data, offset) == parse_fspec_loop(data, offset, 0, <<>>)

(***************************************************************************)
(* FSPEC chain: build_fspec(S), then _parse_fspec(., 0) of the result.     *)
(***************************************************************************)

\* a name that is not in the UAP table
UnknownItemName == "I062/295"

ItemNames == DOMAIN UAP_FRN \cup {UnknownItemName}

InitFspec ==
    /\ phase = "items"
    /\ inp \in SUBSET ItemNames
    /\ wire = None
    /\ out = None

CallBuildFspec ==
    /\ phase = "items"
    /\ wire' = build_fspec(inp)
    /\ phase' = "fspec"
    /\ UNCHANGED <<inp, out>>

CallParseFspec ==
    /\ phase = "fspec"
    /\ out' = parse_fspec(wire, 0)
    /\ phase' = "fspec_parsed"
    /\ UNCHANGED <<inp, wire>>

NextFspec == CallBuildFspec \/ CallParseFspec

SpecFspec == InitFspec /\ [][NextFspec]_vars

(***************************************************************************)
(* Octet chain: _parse_fspec(data, offset) on arbitrary octets.            *)
(***************************************************************************)

\* Longest octet sequence given to _parse_fspec.
MaxOctets == 3

\* Octets: none of the bits, each bit alone, FRN 1 with FX, all but FX,
\* all bits, and alternating bits.
OctetValues == {0, 1, 2, 4, 8, 16, 32, 64, 128, 129, 170, 254, 255}

OctetSeqs(n) == UNION {[1..k -> OctetValues] : k \in 0..n}

InitOctets ==
    /\ phase = "octets"
    /\ wire \in OctetSeqs(MaxOctets)
    /\ inp \in 0..Len(wire)
    /\ out = None

CallParseFspecAt ==
    /\ phase = "octets"
    /\ out' = parse_fspec(wire, inp)
    /\ phase' = "octets_parsed"
    /\ UNCHANGED <<inp, wire>>

NextOctets == CallParseFspecAt

SpecOctets == InitOctets /\ [][NextOctets]_vars

\* the ascending list of a finite set of integers
RECURSIVE Ascending(_)
Ascending(S) ==
    IF S = {} THEN <<>>
    ELSE <<SetMin(S)>> \o Ascending(S \ {SetMin(S)})

\* the item names build_cat62_record uses: FRNs 1, 2, 3, 4, 6, 12, 14
RecordItemNames ==
    {"I062/010", "I062/040", "I062/070", "I062/105", "I062/185",
     "I062/136", "I062/220"}

\* C1: for every non-empty set S of FRNs drawn from {1,2,3,4,6,12,14},
\* _parse_fspec at offset 0 of build_fspec(S) returns exactly S in ascending
\* order and the offset just after the FSPEC, whose length is
\* ceil(max(S) / 7) octets.
C1_FspecInverse ==
    (phase = "fspec_parsed" /\ inp # {} /\ inp \subseteq RecordItemNames) =>
        LET S == {UAP_FRN[n] : n \in inp}
        IN  /\ out.exc = "none"
            /\ out.frns = Ascending(S)
            /\ out.offset = Len(wire)
            /\ 7 * (Len(wire) - 1) < SetMax(S)
            /\ SetMax(S) <= 7 * Len(wire)

\* C1 witness: a two-octet FSPEC (FRNs on both sides of the octet boundary)
\* has been built and parsed back.
C1_Witness ==
    /\ phase = "fspec_parsed"
    /\ inp = {"I062/040", "I062/185", "I062/136", "I062/220"}
    /\ wire = <<69, 10>>
    /\ out.frns = <<2, 6, 12, 14>>

\* C2: in build_fspec(S), for every set S of UAP item names, every octet
\* except the last has bit 1 (FX) set and the last has it clear; with
\* max FRN <= 7 the result is one octet with FX clear.
C2_ExtensionBit ==
    (phase = "fspec" /\ inp \subseteq DOMAIN UAP_FRN) =>
        /\ Len(wire) >= 1
        /\ \A k \in 1..Len(wire) :
              (wire[k] % 2 = 1) <=> (k < Len(wire))
        /\ (inp # {} /\ SetMax({UAP_FRN[n] : n \in inp}) <= 7) => Len(wire) = 1

\* C2 witness: a two-octet FSPEC whose first octet carries FX and whose
\* last does not.
C2_Witness ==
    /\ phase = "fspec"
    /\ inp = {"I062/010", "I062/060"}
    /\ wire = <<129, 128>>

(***************************************************************************)
(* Fixed-point values.                                                     *)
(*                                                                         *)
(* Physical values are reals in the Python (floats); here they are exact   *)
(* fixed-point numbers, on grids where the float arithmetic of the code is *)
(* exact or rounds the same way:                                           *)
(*  - velocity, flight level, rate of climb: an integer count of 1e-4      *)
(*    units (E4 counts per m/s, FL, ft/min);                               *)
(*  - time: an integer count of 1/512 s (TICKS_PER_S counts per second);   *)
(*  - an encoder's WGS-84 input: the exact quotient value / WGS84_LSB as   *)
(*    [hi, lo, fr] = hi * 65536 + lo + fr / 4 (lo in 0..65535, fr in       *)
(*    0..3), which keeps quotients beyond 32 bits representable;           *)
(*  - a decoder's WGS-84 output: [deg, e8] = deg + e8 * 1e-8 degrees       *)
(*    (0 <= e8 < 10^8).                                                    *)
(***************************************************************************)

E4 == 10 ^ 4

TICKS_PER_S == 4 * 128

\* VEL_LSB = 0.25, FL_LSB = 0.25, ROCD_LSB = 6.25, in 1e-4 units
VEL_LSB == E4 \div 4

FL_LSB == E4 \div 4

ROCD_LSB == (25 * E4) \div 4

\* Python's round(num / den) for den > 0: to nearest, ties to even
RoundHalfEven(num, den) ==
    LET q == num \div den
        r == num % den
    IN  IF 2 * r < den THEN q
        ELSE IF 2 * r > den THEN q + 1
        ELSE IF q % 2 = 0 THEN q ELSE q + 1

\* max(lo, min(hi, raw))
Clamp(lo, hi, raw) ==
    LET m == IF hi < raw THEN hi ELSE raw
    IN  IF lo > m THEN lo ELSE m

\* struct.pack(">H", u) for 0 <= u <= 65535; struct.pack(">h", v) and
\* struct.unpack(">H" / ">h", .)
PackU16(u) == <<u \div 256, u % 256>>

PackS16(v) == PackU16(v % 65536)

UnpackU16(data) == data[1] * 256 + data[2]

UnpackS16(data) ==
    LET u == UnpackU16(data) IN IF u >= 32768 THEN u - 65536 ELSE u

\* struct.pack(">I", raw)[1:] for 0 <= raw < 2^24
Pack24(raw) == <<raw \div 65536, (raw \div 256) % 256, raw % 256>>

\* int.from_bytes(data[:3], "big")
Unpack24(data) == data[1] * 65536 + data[2] * 256 + data[3]

(***************************************************************************)
(* Item encoders.                                                          *)
(***************************************************************************)

\* struct.pack("BB", sac & 0xFF, sic & 0xFF)
encode_I062_010(sac, sic) == <<sac % 256, sic % 256>>

encode_I062_040_clamping(track_number) ==
    PackU16(Clamp(0, 4095, track_number))

\* tn = track_number & 0x0FFF; struct.pack(">H", tn)
encode_I062_040(track_number) == PackU16(track_number % 4096)

\* raw = int(round(seconds_since_midnight * 128)) & 0xFFFFFF
time_raw(ticks) == RoundHalfEven(ticks, TICKS_PER_S \div 128) % 16777216

encode_I062_070(seconds_since_midnight) ==
    Pack24(time_raw(seconds_since_midnight))

signed16_raw_wrapping(value, lsb) ==
    ((RoundHalfEven(value, lsb) + 32768) % 65536) - 32768

\* raw = int(round(value / LSB)); raw = max(-32768, min(32767, raw))
signed16_raw(value, lsb) == Clamp(-32768, 32767, RoundHalfEven(value, lsb))

encode_I062_185(vx, vy) ==
    PackS16(signed16_raw(vx, VEL_LSB)) \o PackS16(signed16_raw(vy, VEL_LSB))

encode_I062_136(flight_level) == PackS16(signed16_raw(flight_level, FL_LSB))

encode_I062_220(rocd) == PackS16(signed16_raw(rocd, ROCD_LSB))

\* int(round(q)) of a WGS-84 quotient q = [hi, lo, fr], as [hi, lo]
wgs_round(q) ==
    LET up == \/ q.fr = 3
              \/ (q.fr = 2 /\ q.lo % 2 = 1)
    IN  IF ~up THEN [hi |-> q.hi, lo |-> q.lo]
        ELSE IF q.lo = 65535 THEN [hi |-> q.hi + 1, lo |-> 0]
        ELSE [hi |-> q.hi, lo |-> q.lo + 1]

\* max(-2147483648, min(2147483647, raw)) on [hi, lo]
wgs_clamp(r) ==
    IF r.hi > 32767 THEN [hi |-> 32767, lo |-> 65535]
    ELSE IF r.hi < -32768 THEN [hi |-> -32768, lo |-> 0]
    ELSE r

\* struct.pack(">i", raw) of raw = hi * 65536 + lo in the signed 32-bit range
PackS32(r) == PackU16(r.hi % 65536) \o PackU16(r.lo)

\* struct.unpack(">i", data): a signed 32-bit integer
UnpackS32(data) ==
    UnpackS16(SubSeq(data, 1, 2)) * 65536 + UnpackU16(SubSeq(data, 3, 4))

wgs_raw(q) == wgs_clamp(wgs_round(q))

encode_I062_105(lat_deg, lon_deg) ==
    PackS32(wgs_raw(lat_deg)) \o PackS32(wgs_raw(lon_deg))

(***************************************************************************)
(* Item decoders.                                                          *)
(***************************************************************************)

decode_I062_010(data) == [sac |-> data[1], sic |-> data[2]]

\* raw & 0x0FFF
decode_I062_040(data) == [track_number |-> UnpackU16(data) % 4096]

\* seconds = raw / 128.0
decode_I062_070(data) ==
    [time_of_track_seconds |-> Unpack24(data) * (TICKS_PER_S \div 128)]

\* round(raw * WGS84_LSB, 8) as [deg, e8].
\* raw * 180 / 2^25 degrees = raw * 17578125 / 32768 counts of 1e-8 degree.
\* With raw = 32768 * a + b (0 <= b < 32768):
\*   a * 17578125           = ((45 a) div 256) * 10^8 + ((45 a) mod 256) * 390625
\*   b * 17578125 / 32768   = 536 b + 14477 b / 32768
\* and the fraction 14477 b / 32768 is rounded to nearest, ties to even.
wgs_round8(raw) ==
    LET a    == raw \div 32768
        b    == raw % 32768
        whole == (45 * a) \div 256
        part == ((45 * a) % 256) * 390625 + 536 * b + ((14477 * b) \div 32768)
        rem  == (14477 * b) % 32768
        n    == IF 2 * rem < 32768 THEN part
                ELSE IF 2 * rem > 32768 THEN part + 1
                ELSE IF part % 2 = 0 THEN part ELSE part + 1
    IN  [deg |-> whole + (n \div 100000000), e8 |-> n % 100000000]

decode_I062_105(data) ==
    [lat |-> wgs_round8(UnpackS32(SubSeq(data, 1, 4))),
     lon |-> wgs_round8(UnpackS32(SubSeq(data, 5, 8)))]

\* round(raw * lsb, 4): raw * lsb is a whole number of 1e-4 units for the
\* three LSBs in use (0.25, 0.25, 6.25), which round(., 4) leaves as it is
Round4(units) == units

decode_I062_185(data) ==
    [vx |-> Round4(UnpackS16(SubSeq(data, 1, 2)) * VEL_LSB),
     vy |-> Round4(UnpackS16(SubSeq(data, 3, 4)) * VEL_LSB)]

decode_I062_136(data) ==
    [measured_flight_level |-> Round4(UnpackS16(data) * FL_LSB)]

decode_I062_220(data) == [rocd |-> Round4(UnpackS16(data) * ROCD_LSB)]

(***************************************************************************)
(* Fixed-point helpers of utils.py.                                        *)
(***************************************************************************)

\* raw = int(round(seconds_since_midnight * 128)) & 0xFFFFFF
encode_time_of_track(seconds_since_midnight) ==
    Pack24(RoundHalfEven(seconds_since_midnight, TICKS_PER_S \div 128)
           % 16777216)

\* An LSB given in sixteenths (0.25 -> 4, 6.25 -> 100), in 1e-4 units.  The
\* helpers divide floats: for an LSB that is a multiple of 1/16 a quotient
\* at a tie is a binary fraction and the float division is exact there, so
\* round(value / lsb) is the half-even rounding of the exact quotient.
Sixteenths(lsb16) == (E4 \div 16) * lsb16

\* raw = int(round(value / lsb)); raw = max(-32768, min(32767, raw))
encode_signed_16(value, lsb16) ==
    PackS16(Clamp(-32768, 32767, RoundHalfEven(value, Sixteenths(lsb16))))

\* value / lsb is given as the quotient [hi, lo, fr]
encode_signed_32(quotient) == PackS32(wgs_clamp(wgs_round(quotient)))

\* raw = int(round(value / lsb)); raw = max(0, min(65535, raw))
encode_unsigned_16(value, lsb16) ==
    PackU16(Clamp(0, 65535, RoundHalfEven(value, Sixteenths(lsb16))))

(***************************************************************************)
(* Scalar chain: one item's values are encoded, then the bytes decoded.    *)
(***************************************************************************)

\* Quarter-LSB steps explored on each side of 0 and of each range bound.
ScalarSpan == 6

Around(c) == {c + d : d \in (-ScalarSpan)..ScalarSpan}

\* value / lsb in quarters, for the signed 16-bit fields
Quarters16 == Around(0) \cup Around(4 * 32767) \cup Around(-4 * 32768)

\* 1e-4 units: 100000.0 m/s (or FL), and 210000.0 ft/min
FarVel == 100000 * E4

FarRocd == 210000 * E4

VelValues ==
    {q * (VEL_LSB \div 4) : q \in Quarters16} \cup {FarVel, -FarVel}

RocdValues ==
    {q * (ROCD_LSB \div 4) : q \in Quarters16} \cup {FarRocd, -FarRocd}

\* 50.0, -75.5 and 200.25 m/s
VelSamples == {0, 500000, -755000, 2002500}

\* ticks of 1/512 s: around 0, around the top of the 24-bit range,
\* 35280 s, 131072 s (raw 2^24) and one hour before midnight
TimeValues ==
    Around(0) \cup Around(4 * 16777215)
    \cup {18063360, 67108864, -1843200}

\* WGS-84 quotients: 16-bit halves at and beyond the 32-bit bounds, low
\* halves at both ends of a carry and at a tie of the 8-decimal rounding
WgsHi == {-32769, -32768, -1, 0, 32767, 32768}

WgsLo == {0, 1, 16384, 65534, 65535}

WgsValues == [hi : WgsHi, lo : WgsLo, fr : 0..3]

\* 0, and 28.6139 N (5334017.57 LSB) and 77.2090 E (14392800.78 LSB) at a
\* quarter of an LSB on the same side of the tie
WgsSamples ==
    {[hi |-> 0, lo |-> 0, fr |-> 0], [hi |-> 81, lo |-> 25601, fr |-> 3],
     [hi |-> 219, lo |-> 40416, fr |-> 3]}

SacSicValues == {0, 1, 255, 256, 511}

TrackNumbers == {0, 1, 4095, 4096, 4097, 65535, 70000}

\* values for encode_unsigned_16, 1e-4 units
Unsigned16Values ==
    {q * (VEL_LSB \div 4) : q \in Around(0) \cup Around(4 * 65535)}
    \cup {FarVel}

\* the LSBs the helpers are called with, in sixteenths: 0.25 and 6.25
VEL_LSB_16 == VEL_LSB \div (E4 \div 16)

ROCD_LSB_16 == ROCD_LSB \div (E4 \div 16)

ScalarInputs ==
    [item : {"I062/010"}, sac : SacSicValues, sic : SacSicValues]
    \cup [item : {"I062/040"}, track_number : TrackNumbers]
    \cup [item : {"I062/070"}, seconds : TimeValues]
    \cup [item : {"I062/105"}, lat : WgsValues, lon : WgsSamples]
    \cup [item : {"I062/105"}, lat : WgsSamples, lon : WgsValues]
    \cup [item : {"I062/185"}, vx : VelValues, vy : VelSamples]
    \cup [item : {"I062/185"}, vx : VelSamples, vy : VelValues]
    \cup [item : {"I062/136"}, flight_level : VelValues]
    \cup [item : {"I062/220"}, rocd : RocdValues]
    \cup [item : {"time_of_track"}, seconds : TimeValues]
    \cup [item : {"signed_16"}, value : VelValues, lsb16 : {VEL_LSB_16}]
    \cup [item : {"signed_16"}, value : RocdValues, lsb16 : {ROCD_LSB_16}]
    \cup [item : {"signed_32"}, quotient : WgsValues]
    \cup [item : {"unsigned_16"}, value : Unsigned16Values,
           lsb16 : {VEL_LSB_16}]

InitScalar ==
    /\ phase = "value"
    /\ inp \in ScalarInputs
    /\ wire = None
    /\ out = None

Encoded(item, bytes) ==
    /\ phase = "value"
    /\ inp.item = item
    /\ wire' = bytes
    /\ phase' = "encoded"
    /\ UNCHANGED <<inp, out>>

Decoded(item, fields) ==
    /\ phase = "encoded"
    /\ inp.item = item
    /\ out' = fields
    /\ phase' = "decoded"
    /\ UNCHANGED <<inp, wire>>

CallEncode010 == Encoded("I062/010", encode_I062_010(inp.sac, inp.sic))

CallEncode040 == Encoded("I062/040", encode_I062_040(inp.track_number))

CallEncode070 == Encoded("I062/070", encode_I062_070(inp.seconds))

CallEncode105 == Encoded("I062/105", encode_I062_105(inp.lat, inp.lon))

CallEncode185 == Encoded("I062/185", encode_I062_185(inp.vx, inp.vy))

CallEncode136 == Encoded("I062/136", encode_I062_136(inp.flight_level))

CallEncode220 == Encoded("I062/220", encode_I062_220(inp.rocd))

CallEncodeTimeOfTrack ==
    Encoded("time_of_track", encode_time_of_track(inp.seconds))

CallEncodeSigned16 ==
    Encoded("signed_16", encode_signed_16(inp.value, inp.lsb16))

CallEncodeSigned32 == Encoded("signed_32", encode_signed_32(inp.quotient))

CallEncodeUnsigned16 ==
    Encoded("unsigned_16", encode_unsigned_16(inp.value, inp.lsb16))

CallDecode010 == Decoded("I062/010", decode_I062_010(wire))

CallDecode040 == Decoded("I062/040", decode_I062_040(wire))

CallDecode070 == Decoded("I062/070", decode_I062_070(wire))

CallDecode105 == Decoded("I062/105", decode_I062_105(wire))

CallDecode185 == Decoded("I062/185", decode_I062_185(wire))

CallDecode136 == Decoded("I062/136", decode_I062_136(wire))

CallDecode220 == Decoded("I062/220", decode_I062_220(wire))

NextScalar ==
    \/ CallEncode010 \/ CallEncode040 \/ CallEncode070 \/ CallEncode105
    \/ CallEncode185 \/ CallEncode136 \/ CallEncode220
    \/ CallEncodeTimeOfTrack \/ CallEncodeSigned16 \/ CallEncodeSigned32
    \/ CallEncodeUnsigned16
    \/ CallDecode010 \/ CallDecode040 \/ CallDecode070 \/ CallDecode105
    \/ CallDecode185 \/ CallDecode136 \/ CallDecode220

SpecScalar == InitScalar /\ [][NextScalar]_vars

\* The bounds of the raw ranges.
S16_MIN == -32768

S16_MAX == 32767

U24_MAX == 16777215

\* the LSB in use for the input's 16-bit field(s)
Lsb16(item) == IF item = "I062/220" THEN ROCD_LSB
               ELSE IF item = "I062/136" THEN FL_LSB ELSE VEL_LSB

InRange16(value, lsb) ==
    LET r == RoundHalfEven(value, lsb) IN S16_MIN <= r /\ r <= S16_MAX

InRangeWgs(q) ==
    LET r == wgs_round(q) IN -32768 <= r.hi /\ r.hi <= 32767

InRangeTime(ticks) ==
    LET r == RoundHalfEven(ticks, TICKS_PER_S \div 128)
    IN  0 <= r /\ r <= U24_MAX

\* |decoded - value| <= lsb / 2, all in the same unit
WithinHalf(decoded, value, lsb) ==
    /\ 2 * (decoded - value) <= lsb
    /\ 2 * (value - decoded) <= lsb

\* |dec - q * WGS84_LSB| <= WGS84_LSB / 2 for an in-range quotient q and a
\* decoded dec = [deg, e8].  In units of 1e-8 / 32768 degree the LSB is
\* 17578125, and with Q = hi * 65536 + lo = 32768 a + b the difference
\* 32768 * (deg * 10^8 + e8) - 17578125 * Q is 32768 * D - 14477 * b for the
\* D below; the comparison is made on four times the difference.
WgsWithinHalf(dec, q) ==
    LET Q  == q.hi * 65536 + q.lo
        a  == Q \div 32768
        b  == Q % 32768
        D  == (dec.deg - ((45 * a) \div 256)) * 100000000
              + (dec.e8 - ((45 * a) % 256) * 390625) - 536 * b
        d4 == 4 * (32768 * D - 14477 * b) - 17578125 * q.fr
    IN  /\ d4 <= 2 * 17578125
        /\ -d4 <= 2 * 17578125

\* C3: for every physical value inside a field's representable range,
\* decoding the bytes the field's encoder produced returns a value within
\* half an LSB of the value (time, position, velocity, flight level, rate
\* of climb).
C3_RoundTripWithinHalfLsb ==
    phase = "decoded" =>
        /\ (inp.item = "I062/070" /\ InRangeTime(inp.seconds)) =>
              WithinHalf(out.time_of_track_seconds, inp.seconds,
                         TICKS_PER_S \div 128)
        /\ (inp.item = "I062/105" /\ InRangeWgs(inp.lat)) =>
              WgsWithinHalf(out.lat, inp.lat)
        /\ (inp.item = "I062/105" /\ InRangeWgs(inp.lon)) =>
              WgsWithinHalf(out.lon, inp.lon)
        /\ (inp.item = "I062/185" /\ InRange16(inp.vx, VEL_LSB)) =>
              WithinHalf(out.vx, inp.vx, VEL_LSB)
        /\ (inp.item = "I062/185" /\ InRange16(inp.vy, VEL_LSB)) =>
              WithinHalf(out.vy, inp.vy, VEL_LSB)
        /\ (inp.item = "I062/136" /\ InRange16(inp.flight_level, FL_LSB)) =>
              WithinHalf(out.measured_flight_level, inp.flight_level, FL_LSB)
        /\ (inp.item = "I062/220" /\ InRange16(inp.rocd, ROCD_LSB)) =>
              WithinHalf(out.rocd, inp.rocd, ROCD_LSB)

\* C5: when round(value / LSB) of a signed field lies outside the field's
\* range, the encoder emits the nearest bound of the range (0x7FFF / 0x8000
\* for the 16-bit fields, 0x7FFFFFFF / 0x80000000 for latitude and
\* longitude), not the value modulo 2^width.
Bound16(value, lsb, bytes) ==
    LET r == RoundHalfEven(value, lsb)
    IN  /\ r > S16_MAX => bytes = <<127, 255>>
        /\ r < S16_MIN => bytes = <<128, 0>>

BoundWgs(q, bytes) ==
    LET r == wgs_round(q)
    IN  /\ r.hi > 32767 => bytes = <<127, 255, 255, 255>>
        /\ r.hi < -32768 => bytes = <<128, 0, 0, 0>>

C6_TimeClamped ==
    (phase = "encoded" /\ inp.item \in {"I062/070", "time_of_track"}) =>
        LET r == RoundHalfEven(inp.seconds, TICKS_PER_S \div 128)
        IN  /\ r > U24_MAX => wire = <<255, 255, 255>>
            /\ r < 0 => wire = <<0, 0, 0>>

(***************************************************************************)
(* Record and datablock assembly.                                          *)
(***************************************************************************)

\* items_present of build_cat62_record
record_items_present ==
    {"I062/010", "I062/040", "I062/070", "I062/105", "I062/185",
     "I062/136", "I062/220"}

build_cat62_record_argument_order(p) ==
    build_fspec(record_items_present)
    \o encode_I062_010(p.sac, p.sic)
    \o encode_I062_040(p.track_number)
    \o encode_I062_070(p.time_of_track_s)
    \o encode_I062_105(p.lat, p.lon)
    \o encode_I062_136(p.flight_level)
    \o encode_I062_185(p.vx, p.vy)
    \o encode_I062_220(p.rocd)

\* build_cat62_record(sac, sic, track_number, time_of_track_s, lat, lon,
\* flight_level, vx, vy, rocd), the arguments given as one record p
build_cat62_record(p) ==
    build_fspec(record_items_present)
    \o encode_I062_010(p.sac, p.sic)
    \o encode_I062_040(p.track_number)
    \o encode_I062_070(p.time_of_track_s)
    \o encode_I062_105(p.lat, p.lon)
    \o encode_I062_185(p.vx, p.vy)
    \o encode_I062_136(p.flight_level)
    \o encode_I062_220(p.rocd)

\* b"".join(records): the records one after the other, joined half by
\* half so that thousands of records can be joined
RECURSIVE Join(_)
Join(records) ==
    IF records = <<>> THEN <<>>
    ELSE IF Len(records) = 1 THEN records[1]
    ELSE LET h == Len(records) \div 2
         IN  Join(SubSeq(records, 1, h))
             \o Join(SubSeq(records, h + 1, Len(records)))

StructError == [exc |-> "struct.error"]

total_length_without_header(payload) == Len(payload)

\* total_length = 3 + len(payload)
total_length(payload) == 3 + Len(payload)

build_datablock_length_wraps(records) ==
    LET payload == Join(records)
    IN  <<CAT62_CATEGORY>> \o PackU16(total_length(payload) % 65536) \o payload

\* struct.pack(">BH", CAT62_CATEGORY, total_length) raises struct.error for
\* a total_length above 65535
build_datablock(records) ==
    LET payload == Join(records)
    IN  IF total_length(payload) > 65535 THEN StructError
        ELSE <<CAT62_CATEGORY>> \o PackU16(total_length(payload)) \o payload

(***************************************************************************)
(* parse_datablock.                                                        *)
(***************************************************************************)

\* _FRN_REGISTRY: FRN -> (item_name, byte_size, decoder or None)
FRN_REGISTRY ==
    (1  :> [name |-> "I062/010", size |-> 2, decoder |-> "decode_I062_010"]) @@
    (2  :> [name |-> "I062/040", size |-> 2, decoder |-> "decode_I062_040"]) @@
    (3  :> [name |-> "I062/070", size |-> 3, decoder |-> "decode_I062_070"]) @@
    (4  :> [name |-> "I062/105", size |-> 8, decoder |-> "decode_I062_105"]) @@
    (5  :> [name |-> "I062/100", size |-> 6, decoder |-> None]) @@
    (6  :> [name |-> "I062/185", size |-> 4, decoder |-> "decode_I062_185"]) @@
    (7  :> [name |-> "I062/210", size |-> 4, decoder |-> None]) @@
    (8  :> [name |-> "I062/060", size |-> 2, decoder |-> None]) @@
    (9  :> [name |-> "I062/245", size |-> 7, decoder |-> None]) @@
    (12 :> [name |-> "I062/136", size |-> 2, decoder |-> "decode_I062_136"]) @@
    (13 :> [name |-> "I062/130", size |-> 2, decoder |-> None]) @@
    (14 :> [name |-> "I062/220", size |-> 2, decoder |-> "decode_I062_220"])

\* decoder(field_bytes)
ApplyDecoder(decoder, field_bytes) ==
    CASE decoder = "decode_I062_010" -> decode_I062_010(field_bytes)
      [] decoder = "decode_I062_040" -> decode_I062_040(field_bytes)
      [] decoder = "decode_I062_070" -> decode_I062_070(field_bytes)
      [] decoder = "decode_I062_105" -> decode_I062_105(field_bytes)
      [] decoder = "decode_I062_185" -> decode_I062_185(field_bytes)
      [] decoder = "decode_I062_136" -> decode_I062_136(field_bytes)
      [] decoder = "decode_I062_220" -> decode_I062_220(field_bytes)

\* The ValueErrors of parse_datablock, by message.
TooShort ==
    [exc |-> "ValueError", msg |-> "Datablock too short (< 3 bytes)"]

WrongCategory(category) ==
    [exc |-> "ValueError", msg |-> "Expected CAT62 (0x3E=62), got {category}",
     category |-> category]

TruncatedDatablock(declared_length, available) ==
    [exc |-> "ValueError",
     msg |-> "Declared length {declared_length} exceeds available data {len(raw)}",
     declared_length |-> declared_length, available |-> available]

Truncated380 ==
    [exc |-> "ValueError", msg |-> "Truncated I062/380 primary subfield"]

TruncatedItem(name, offset) ==
    [exc |-> "ValueError", msg |-> "Truncated item {name} at offset {offset}",
     name |-> name, offset |-> offset]

ReturnPartial(exception, records) == [exc |-> "none", records |-> records]

\* An exception raised inside parse_datablock leaves the function: nothing
\* catches it, and the records collected so far are dropped.
Raise(exception, records) == exception

\* the bounds check of an item: offset + size > declared_length
item_truncated(offset, size, declared_length) ==
    offset + size > declared_length

\* the number of set bits of a non-negative integer
RECURSIVE PopCount(_)
PopCount(x) == IF x = 0 THEN 0 ELSE (x % 2) + PopCount(x \div 2)

spare_advance_one_byte(offset) == offset + 1

\* `continue` at the spare FRN 11: the offset is left where it is
spare_advance(offset) == offset

compound_advance_by_subfields(offset, primary) == offset + 2 + PopCount(primary)

\* primary = struct.unpack(">H", raw[offset:offset + 2])[0]; offset += 2
compound_advance(offset, primary) == offset + 2

\* `break` at an FRN that is not in _FRN_REGISTRY: the for loop ends with
\* the offset and the record as they are
unknown_frn_break(frn, offset, record) ==
    [exc |-> "none", offset |-> offset, record |-> record]

item_advance_decoded_only(offset, e) ==
    IF e.decoder # None THEN offset + e.size ELSE offset

\* offset += size, for an entry e of _FRN_REGISTRY
item_advance(offset, e) == offset + e.size

\* record.update(decoder(field_bytes)) if decoder is not None
merge_decoded(e, field_bytes, record) ==
    IF e.decoder # None
    THEN ApplyDecoder(e.decoder, field_bytes) @@ record
    ELSE record

\* the for loop over fspec_frns; returns [exc, offset, record]
RECURSIVE item_loop(_, _, _, _, _)
item_loop(raw, declared_length, frns, offset, record) ==
    IF frns = <<>> THEN [exc |-> "none", offset |-> offset, record |-> record]
    ELSE
      LET frn == Head(frns) IN
      IF frn = 11
      THEN item_loop(raw, declared_length, Tail(frns), spare_advance(offset),
                     record)
      ELSE IF frn = 10
      THEN IF item_truncated(offset, 2, declared_length)
           THEN Truncated380
           ELSE item_loop(raw, declared_length, Tail(frns),
                          compound_advance(
                              offset, UnpackU16(Slice(raw, offset, offset + 2))),
                          ("I062/380" :> [note |-> "present but not decoded"])
                          @@ record)
      ELSE IF frn \notin DOMAIN FRN_REGISTRY
      THEN unknown_frn_break(frn, offset, record)
      ELSE
        LET e == FRN_REGISTRY[frn] IN
        IF item_truncated(offset, e.size, declared_length)
        THEN TruncatedItem(e.name, offset)
        ELSE
          LET field_bytes == Slice(raw, offset, offset + e.size) IN
          item_loop(raw, declared_length, Tail(frns), item_advance(offset, e),
                    merge_decoded(e, field_bytes, record))

\* the while offset < declared_length loop
RECURSIVE record_loop(_, _, _, _)
record_loop(raw, declared_length, offset, records) ==
    IF ~(offset < declared_length)
    THEN [exc |-> "none", records |-> records]
    ELSE
      LET fs == parse_fspec(raw, offset) IN
      IF fs.exc # "none" THEN Raise(fs, records)
      ELSE
        LET fspec_hex == HexUpper(Slice(raw, offset, fs.offset))
            r == item_loop(raw, declared_length, fs.frns, fs.offset,
                           [fspec_hex |-> fspec_hex])
        IN  IF r.exc # "none" THEN Raise(r, records)
            ELSE record_loop(raw, declared_length, r.offset,
                             Append(records, r.record))

NoFault == [exc |-> "none"]

header_fault_length_first(raw) ==
    IF Len(raw) < 3 THEN TooShort
    ELSE IF UnpackU16(SubSeq(raw, 2, 3)) > Len(raw)
    THEN TruncatedDatablock(UnpackU16(SubSeq(raw, 2, 3)), Len(raw))
    ELSE IF raw[1] # CAT62_CATEGORY THEN WrongCategory(raw[1])
    ELSE NoFault

\* the three header checks, in the order of the code
header_fault(raw) ==
    IF Len(raw) < 3 THEN TooShort
    ELSE IF raw[1] # CAT62_CATEGORY THEN WrongCategory(raw[1])
    ELSE IF UnpackU16(SubSeq(raw, 2, 3)) > Len(raw)
    THEN TruncatedDatablock(UnpackU16(SubSeq(raw, 2, 3)), Len(raw))
    ELSE NoFault

parse_datablock_to_buffer_end(raw) ==
    IF header_fault(raw) # NoFault THEN Raise(header_fault(raw), <<>>)
    ELSE record_loop(raw, Len(raw), 3, <<>>)

parse_datablock(raw) ==
    IF header_fault(raw) # NoFault THEN Raise(header_fault(raw), <<>>)
    ELSE record_loop(raw, UnpackU16(SubSeq(raw, 2, 3)), 3, <<>>)

(***************************************************************************)
(* Framing chain: plots -> build_cat62_record each -> build_datablock ->   *)
(* parse_datablock.                                                        *)
(***************************************************************************)

\* Longest list of plots encoded into one datablock.
MaxRecords == 3

\* The two plots of round_trip_test.py.  A position is its quotient by the
\* LSB at a quarter of an LSB on the same side of the tie: 28.6139 N is
\* 5334017.57, 77.2090 E is 14392800.78, 19.0760 N is 3556024.14 and
\* 72.8777 E is 13585387.94 LSB.
RoundTripPlot1 ==
    [time_of_track_s |-> 35280 * TICKS_PER_S,
     lat |-> [hi |-> 81, lo |-> 25601, fr |-> 3],
     lon |-> [hi |-> 219, lo |-> 40416, fr |-> 3],
     flight_level |-> 100 * E4, vx |-> 50 * E4, vy |-> 100 * E4,
     rocd |-> 500 * E4]

RoundTripPlot2 ==
    [time_of_track_s |-> 51735 * TICKS_PER_S + 256,
     lat |-> [hi |-> 54, lo |-> 17080, fr |-> 1],
     lon |-> [hi |-> 207, lo |-> 19435, fr |-> 3],
     flight_level |-> 350 * E4, vx |-> -755000, vy |-> 2002500,
     rocd |-> -3125000]

\* The plots of round_trip_test.py, a plot of zeros, and a plot with every
\* value outside its field's range (a time of track one second before
\* midnight of its day).
PlotSamples ==
    {RoundTripPlot1, RoundTripPlot2,
     [time_of_track_s |-> 0,
      lat |-> [hi |-> 0, lo |-> 0, fr |-> 0],
      lon |-> [hi |-> 0, lo |-> 0, fr |-> 0],
      flight_level |-> 0, vx |-> 0, vy |-> 0, rocd |-> 0],
     [time_of_track_s |-> -TICKS_PER_S,
      lat |-> [hi |-> 32768, lo |-> 0, fr |-> 0],
      lon |-> [hi |-> -32769, lo |-> 65535, fr |-> 2],
      flight_level |-> -FarVel, vx |-> FarVel, vy |-> -FarVel,
      rocd |-> FarRocd]}

\* the non-empty lists of at most n plots (_extract_plots rejects an empty
\* list before any record is built)
PlotLists(n) == UNION {[1..k -> PlotSamples] : k \in 1..n}

\* _DEFAULT_SAC, _DEFAULT_SIC
DEFAULT_SAC == 0

DEFAULT_SIC == 1

\* the arguments _encode_single_plot hands build_cat62_record
record_arguments(plot, track_number) ==
    [sac |-> DEFAULT_SAC, sic |-> DEFAULT_SIC,
     track_number |-> track_number,
     time_of_track_s |-> plot.time_of_track_s,
     lat |-> plot.lat, lon |-> plot.lon,
     flight_level |-> plot.flight_level,
     vx |-> plot.vx, vy |-> plot.vy, rocd |-> plot.rocd]

encode_single_plot(plot, track_number) ==
    build_cat62_record(record_arguments(plot, track_number))

InitFrame ==
    /\ phase = "plots"
    /\ inp \in PlotLists(MaxRecords)
    /\ wire = None
    /\ out = None

\* for index, plot in enumerate(plots): track_number = index + 1
CallBuildRecords ==
    /\ phase = "plots"
    /\ wire' = [i \in 1..Len(inp) |-> encode_single_plot(inp[i], i)]
    /\ phase' = "records"
    /\ UNCHANGED <<inp, out>>

CallBuildDatablock ==
    /\ phase = "records"
    /\ wire' = build_datablock(wire)
    /\ phase' = "datablock"
    /\ UNCHANGED <<inp, out>>

CallParseDatablock ==
    /\ phase = "datablock"
    /\ out' = parse_datablock(wire)
    /\ phase' = "parsed"
    /\ UNCHANGED <<inp, wire>>

NextFrame == CallBuildRecords \/ CallBuildDatablock \/ CallParseDatablock

SpecFrame == InitFrame /\ [][NextFrame]_vars

(***************************************************************************)
(* Block chain: encode_plots on lists of plots whose datablock is about as *)
(* long as the 2-byte length field can say.  Each plot makes a record of   *)
(* 25 bytes: 2621 plots make 3 + 65525 = 65528 bytes, 2622 plots 65553.    *)
(***************************************************************************)

\* Numbers of plots explored on each side of the limit.
MaxOver == 18

\* the most plots whose datablock the length field can say
PlotLimit == (65535 - 3) \div 25

PlotCounts(k) == (PlotLimit + 1 - k)..(PlotLimit + k)

InitBlock ==
    /\ phase = "plots"
    /\ \E n \in PlotCounts(MaxOver) : inp = [i \in 1..n |-> RoundTripPlot1]
    /\ wire = None
    /\ out = None

NextBlock == CallBuildRecords \/ CallBuildDatablock

SpecBlock == InitBlock /\ [][NextBlock]_vars

(***************************************************************************)
(* Parsing chain: parse_datablock on arbitrary buffers.                    *)
(***************************************************************************)

\* Longest buffer body (the bytes after the 3-byte header).
MaxBody == 5

\* Body bytes: 0x00 (empty FSPEC), 0x01 (FX only), 0x20 (FRN 3, or FRN 10
\* in a second octet), 0x80 (FRN 1, FRN 8 in a second octet, FRN 15 in a
\* third), 0x81 (FRN 1 and FX).
BodyBytes == {0, 1, 32, 128, 129}

\* the bodies of at most n bytes
Bodies(n) == UNION {[1..k -> BodyBytes] : k \in 0..n}

\* Headers: category 62 with every declared length from 0 to one more than
\* the longest buffer of bodies of at most n bytes, a declared length of
\* 256, and a wrong category with a fitting and with an excessive declared
\* length.
Headers(n) ==
    {<<CAT62_CATEGORY, 0, lo>> : lo \in 0..(3 + n + 1)}
    \cup {<<CAT62_CATEGORY, 1, 0>>}
    \cup {<<61, 0, 3>>, <<61, 0, 3 + n + 1>>}

ShortBuffers == {<<>>, <<CAT62_CATEGORY>>, <<CAT62_CATEGORY, 0>>, <<61, 1>>}

Buffers(n) == ShortBuffers \cup {h \o b : h \in Headers(n), b \in Bodies(n)}

InitParse ==
    /\ phase = "datablock"
    /\ inp = None
    /\ wire \in Buffers(MaxBody)
    /\ out = None

NextParse == CallParseDatablock

SpecParse == InitParse /\ [][NextParse]_vars

(***************************************************************************)
(* Loop chain: parse_datablock run loop by loop.  out holds the locals of  *)
(* the call while it runs (offset, records and, inside a record,           *)
(* record_start, active_frns and octet_index) and its result once it has   *)
(* returned or raised.  The while loop of parse_datablock and the while    *)
(* True loop of _parse_fspec take one step per iteration; the for loop     *)
(* over the FRNs of a record, which runs over a finite list, is one step.  *)
(***************************************************************************)

\* Longest buffer body of the loop chain.
MaxLoopBody == 3

\* declared_length = struct.unpack(">H", raw[1:3])[0]
declared_length_of(raw) == UnpackU16(SubSeq(raw, 2, 3))

fspec_advance_missing(offset) == offset

\* offset += 1 in _parse_fspec
fspec_advance(offset) == offset + 1

InitLoop ==
    /\ phase = "datablock"
    /\ inp = None
    /\ wire \in Buffers(MaxLoopBody)
    /\ out = None

\* the header checks; records = [], offset = 3
EnterParse ==
    /\ phase = "datablock"
    /\ IF header_fault(wire) # NoFault
       THEN /\ phase' = "raised"
            /\ out' = Raise(header_fault(wire), <<>>)
       ELSE /\ phase' = "while"
            /\ out' = [offset |-> 3, records |-> <<>>]
    /\ UNCHANGED <<inp, wire>>

\* while offset < declared_length: false; return records
ExitLoop ==
    /\ phase = "while"
    /\ ~(out.offset < declared_length_of(wire))
    /\ phase' = "returned"
    /\ out' = [exc |-> "none", records |-> out.records]
    /\ UNCHANGED <<inp, wire>>

\* while offset < declared_length: true; record_start = offset, and
\* _parse_fspec is entered with active_frns = [], octet_index = 0
BeginRecord ==
    /\ phase = "while"
    /\ out.offset < declared_length_of(wire)
    /\ phase' = "fspec"
    /\ out' = [offset |-> out.offset, records |-> out.records,
               record_start |-> out.offset, active_frns |-> <<>>,
               octet_index |-> 0]
    /\ UNCHANGED <<inp, wire>>

\* one iteration of the while True loop of _parse_fspec
FspecOctet ==
    /\ phase = "fspec"
    /\ IF out.offset >= Len(wire)
       THEN /\ phase' = "raised"
            /\ out' = Raise(IndexError, out.records)
       ELSE LET byte == wire[out.offset + 1]
            IN  /\ out' = [out EXCEPT
                             !.offset = fspec_advance(@),
                             !.active_frns =
                                 @ \o octet_frns(byte, out.octet_index, 7),
                             !.octet_index = @ + 1]
                /\ phase' = IF byte % 2 = 0 THEN "items" ELSE "fspec"
    /\ UNCHANGED <<inp, wire>>

\* the rest of the record: fspec_hex, the for loop over fspec_frns and
\* records.append(record)
DecodeItems ==
    /\ phase = "items"
    /\ LET fspec_hex == HexUpper(Slice(wire, out.record_start, out.offset))
           r == item_loop(wire, declared_length_of(wire), out.active_frns,
                          out.offset, [fspec_hex |-> fspec_hex])
       IN  IF r.exc # "none"
           THEN /\ phase' = "raised"
                /\ out' = Raise(r, out.records)
           ELSE /\ phase' = "while"
                /\ out' = [offset |-> r.offset,
                           records |-> Append(out.records, r.record)]
    /\ UNCHANGED <<inp, wire>>

NextLoop ==
    EnterParse \/ ExitLoop \/ BeginRecord \/ FspecOctet \/ DecodeItems

\* The call runs on one thread with nothing to wait for: a step that can
\* be taken is taken.
SpecLoop == InitLoop /\ [][NextLoop]_vars /\ WF_vars(NextLoop)

(***************************************************************************)
(* Record chain: parse_datablock on datablocks laid out record by record   *)
(* and item by item.  A record is described by the set of FRNs its FSPEC   *)
(* declares and by the bytes written for each of them: the registered      *)
(* width for an FRN of _FRN_REGISTRY, the 2-byte primary subfield          *)
(* indicator for FRN 10, nothing for the spare FRN 11, and unk bytes for   *)
(* an FRN the parser has no entry for.                                     *)
(***************************************************************************)

\* Most FRNs declared by the record under test.
MaxItems == 2

\* Highest FRN declared: FRN 15 and above lie in a third FSPEC octet and
\* have no entry in _FRN_REGISTRY.
MaxFrn == 16

\* Most records before, and most records after, the record under test.
MaxAround == 1

\* FRNs that are neither in _FRN_REGISTRY nor handled apart (10, 11)
UnknownFrn(frn) == frn \notin (DOMAIN FRN_REGISTRY \cup {10, 11})

\* the FSPEC octets that declare exactly the FRNs of a non-empty set, laid
\* out as build_fspec lays out the FRNs of its items
FspecOf(frns) ==
    LET num_octets == num_octets_for(SetMax(frns))
    IN  [k \in 1..num_octets |->
           OrWeights(0, {f \in frns : octet_idx(f) = k - 1})
           + (IF k < num_octets THEN 1 ELSE 0)]

\* n data bytes of the item frn, every byte different from its neighbours
ItemData(frn, fill, n) == [j \in 1..n |-> (fill + 17 * frn + j) % 256]

\* first data byte of the items: 0x00 and 0x80 are what an item of FRN 15
\* starts with (17 * 15 + 1 = 256)
FillBytes == {0, 128}

\* primary subfield indicators of I062/380
Primaries == {0, 1, 32896, 65535}

\* the bytes written for the item frn of the record d
ItemBytes(d, frn) ==
    IF frn = 11 THEN <<>>
    ELSE IF frn = 10 THEN PackU16(d.primary)
    ELSE IF frn \in DOMAIN FRN_REGISTRY
    THEN ItemData(frn, d.fill, FRN_REGISTRY[frn].size)
    ELSE ItemData(frn, d.fill, d.unk)

RECURSIVE ItemsBytes(_, _)
ItemsBytes(d, frns) ==
    IF frns = <<>> THEN <<>>
    ELSE ItemBytes(d, Head(frns)) \o ItemsBytes(d, Tail(frns))

\* the record d on the wire: FSPEC, then the items in ascending FRN order
RecordBytes(d) == FspecOf(d.frns) \o ItemsBytes(d, Ascending(d.frns))

\* the records under test: at most k FRNs out of 1..maxfrn; the unknown
\* item, if any, with no data byte or with one, starting with either of
\* FillBytes; the indicator of I062/380, if declared, drawn from Primaries
RecordDescs(k, maxfrn) ==
    UNION {
      {[frns |-> F, fill |-> f, unk |-> u, primary |-> p] :
          f \in IF \E x \in F : UnknownFrn(x) THEN FillBytes ELSE {0},
          u \in IF \E x \in F : UnknownFrn(x) THEN {0, 1} ELSE {0},
          p \in IF 10 \in F THEN Primaries ELSE {0}} :
      F \in {G \in SUBSET (1..maxfrn) : Cardinality(G) \in 1..k}}

\* the well-formed record before the record under test
LeadDescs == {[frns |-> {2, 12}, fill |-> 128, unk |-> 0, primary |-> 0]}

\* the well-formed records after it
FollowDescs ==
    {[frns |-> {1}, fill |-> 0, unk |-> 0, primary |-> 0],
     [frns |-> {2, 12}, fill |-> 128, unk |-> 0, primary |-> 0]}

\* the lists of at most n records of a set
AroundLists(descs, n) == UNION {[1..k -> descs] : k \in 0..n}

DatablockDescs(k, maxfrn, n) ==
    [lead : AroundLists(LeadDescs, n), rec : RecordDescs(k, maxfrn),
     follow : AroundLists(FollowDescs, n)]

\* the records of the datablock d, in order
DescList(d) == d.lead \o <<d.rec>> \o d.follow

\* the datablock d on the wire
Datablock(d) ==
    build_datablock([i \in 1..Len(DescList(d)) |-> RecordBytes(DescList(d)[i])])

InitRecord ==
    /\ phase = "datablock"
    /\ inp \in DatablockDescs(MaxItems, MaxFrn, MaxAround)
    /\ wire = Datablock(inp)
    /\ out = None

NextRecord == CallParseDatablock

SpecRecord == InitRecord /\ [][NextRecord]_vars

(***************************************************************************)
(* Properties of the framing and parsing chains.                           *)
(***************************************************************************)

\* the fields a record built from the arguments p carries: each item's
\* encoded bytes decoded by the item's decoder, and the FSPEC in hex
FieldsOf(p) ==
    decode_I062_010(encode_I062_010(p.sac, p.sic))
    @@ decode_I062_040(encode_I062_040(p.track_number))
    @@ decode_I062_070(encode_I062_070(p.time_of_track_s))
    @@ decode_I062_105(encode_I062_105(p.lat, p.lon))
    @@ decode_I062_185(encode_I062_185(p.vx, p.vy))
    @@ decode_I062_136(encode_I062_136(p.flight_level))
    @@ decode_I062_220(encode_I062_220(p.rocd))
    @@ [fspec_hex |-> "F50A"]

RECURSIVE SumLen(_)
SumLen(records) ==
    IF records = <<>> THEN 0 ELSE Len(Head(records)) + SumLen(Tail(records))

\* the declared length of a buffer of at least 3 bytes
DeclaredLength(raw) == raw[2] * 256 + raw[3]

\* C4: for records r1..rn from build_cat62_record, build_datablock emits
\* 0x3E, the big-endian length 3 + sum of len(ri), then the records
\* unchanged; parse_datablock of it returns exactly n records, the i-th
\* carrying the fields of ri.
C4_DatablockFraming ==
    phase = "parsed" =>
        LET recs == [i \in 1..Len(inp) |->
                        build_cat62_record(record_arguments(inp[i], i))]
        IN  /\ wire[1] = 62
            /\ DeclaredLength(wire) = 3 + SumLen(recs)
            /\ Len(wire) = 3 + SumLen(recs)
            /\ \A i \in 1..Len(recs) :
                  SubSeq(wire, 4 + SumLen(SubSeq(recs, 1, i - 1)),
                         3 + SumLen(SubSeq(recs, 1, i))) = recs[i]
            /\ out.exc = "none"
            /\ Len(out.records) = Len(inp)
            /\ \A i \in 1..Len(inp) :
                  out.records[i] = FieldsOf(record_arguments(inp[i], i))

\* C4 witness: two different plots have been framed and parsed back in
\* their order (declared length 3 + 25 + 25).
C4_Witness ==
    /\ phase = "parsed"
    /\ inp = <<RoundTripPlot1, RoundTripPlot2>>
    /\ DeclaredLength(wire) = 53
    /\ out.exc = "none"
    /\ Len(out.records) = 2
    /\ out.records[1].track_number = 1
    /\ out.records[2].track_number = 2

\* C7: for a buffer of category 62 whose declared length L is at most its
\* length (and at least the header's), parse_datablock reads no byte at an
\* index >= L: its result is that of the buffer cut to its first L bytes.
C7_NoReadPastDeclaredLength ==
    (/\ phase = "parsed"
     /\ Len(wire) >= 3
     /\ wire[1] = 62
     /\ DeclaredLength(wire) >= 3
     /\ DeclaredLength(wire) <= Len(wire)) =>
        out = parse_datablock(SubSeq(wire, 1, DeclaredLength(wire)))

\* a fault for an item whose bytes end after the declared length
TruncatedFieldFault(result) ==
    /\ result.exc = "ValueError"
    /\ result.msg \in {Truncated380.msg, TruncatedItem("", 0).msg}

\* C8: the truncated-field fault parse_datablock fails with, for a
\* fixed-width item or for the compound item FRN 10, identifies the
\* offending item and the offset at which its bytes were to start (stated
\* for buffers that end at their declared length).
C8_TruncatedFieldIdentified ==
    (/\ phase = "parsed"
     /\ Len(wire) >= 3
     /\ Len(wire) = DeclaredLength(wire)
     /\ TruncatedFieldFault(out)) =>
        /\ "name" \in DOMAIN out
        /\ "offset" \in DOMAIN out
        /\ out.offset >= 3

\* the first fault of the record decodes of a buffer whose header is
\* accepted, or NoFault
RECURSIVE FirstRecordFault(_, _, _)
FirstRecordFault(raw, declared_length, offset) ==
    IF offset >= declared_length THEN NoFault
    ELSE LET fs == parse_fspec(raw, offset)
         IN  IF fs.exc # "none" THEN fs
             ELSE LET r == item_loop(raw, declared_length, fs.frns,
                                     fs.offset, <<>>)
                  IN  IF r.exc # "none" THEN r
                      ELSE FirstRecordFault(raw, declared_length, r.offset)

\* C9: if the decode of some record of a datablock raises a fault,
\* parse_datablock fails with that fault and returns no records, also when
\* earlier records decoded.
C9_FaultAbortsDatablock ==
    (/\ phase = "parsed"
     /\ header_fault(wire) = NoFault
     /\ FirstRecordFault(wire, DeclaredLength(wire), 3) # NoFault) =>
        /\ out = FirstRecordFault(wire, DeclaredLength(wire), 3)
        /\ "records" \notin DOMAIN out

\* C9 witness: the first record (FRN 1, two bytes) decodes when the
\* datablock ends after it, the second (FRN 1, no byte left) is truncated,
\* and the call has failed.
C9_Witness ==
    /\ phase = "parsed"
    /\ wire = <<62, 0, 7, 128, 0, 1, 128>>
    /\ Len(parse_datablock(<<62, 0, 6, 128, 0, 1>>).records) = 1
    /\ out = TruncatedItem("I062/010", 7)

\* C10: parse_datablock checks the header in order and fails at the first
\* violated check: fewer than 3 bytes; then a first byte other than 62
\* (reported also when the declared length is excessive too); then a
\* declared length above the buffer length.  No record is parsed before.
C10_HeaderChecksInOrder ==
    phase = "parsed" =>
        /\ Len(wire) < 3 => out = TooShort
        /\ (Len(wire) >= 3 /\ wire[1] # 62) => out = WrongCategory(wire[1])
        /\ (Len(wire) >= 3 /\ wire[1] = 62
            /\ DeclaredLength(wire) > Len(wire)) =>
              out = TruncatedDatablock(DeclaredLength(wire), Len(wire))

\* C10 witness: a buffer with both a wrong category and an excessive
\* declared length has been reported as a wrong category.
C10_Witness ==
    /\ phase = "parsed"
    /\ Len(wire) >= 3
    /\ wire[1] = 61
    /\ DeclaredLength(wire) > Len(wire)
    /\ out = WrongCategory(61)

(***************************************************************************)
(* Properties of the record chain.                                         *)
(***************************************************************************)

\* the FRNs of the record d that come before its first unknown FRN
DecodedFrns(d) ==
    {f \in d.frns : \A g \in d.frns : g <= f => ~UnknownFrn(g)}

\* the fields of the record d, read off the bytes written for its items:
\* the FSPEC in hex, the marker of I062/380, and what the decoder of every
\* item that has one makes of the item's bytes
RECURSIVE MergeFields(_, _, _)
MergeFields(d, frns, record) ==
    IF frns = <<>> THEN record
    ELSE LET f == Head(frns) IN
         MergeFields(d, Tail(frns),
           IF f = 10
           THEN ("I062/380" :> [note |-> "present but not decoded"]) @@ record
           ELSE IF f \in DOMAIN FRN_REGISTRY /\ FRN_REGISTRY[f].decoder # None
           THEN ApplyDecoder(FRN_REGISTRY[f].decoder, ItemBytes(d, f)) @@ record
           ELSE record)

ExpectedRecord(d) ==
    MergeFields(d, Ascending(DecodedFrns(d)),
                [fspec_hex |-> HexUpper(FspecOf(d.frns))])

ExpectedRecords(ds) == [i \in 1..Len(ds) |-> ExpectedRecord(ds[i])]

HasUnknownFrn(d) == \E f \in d.frns : UnknownFrn(f)

\* C11: when a record declares an FRN that is neither in the registry nor
\* 10 nor 11, and the bytes of its earlier items are there,
\* parse_datablock does not raise: the call returns, the records before
\* that record are kept, and the record follows them with fspec_hex and
\* the fields of the items before the unknown FRN, and with no field of
\* an item at or after it.
C11_UnknownFrnDegrades ==
    (phase = "parsed" /\ HasUnknownFrn(inp.rec)) =>
        LET kept == ExpectedRecords(inp.lead) \o <<ExpectedRecord(inp.rec)>>
        IN  /\ out.exc = "none"
            /\ Len(out.records) >= Len(kept)
            /\ SubSeq(out.records, 1, Len(kept)) = kept

\* C12: when a record with an unknown FRN carries that item's data bytes
\* and well-formed records follow it, parse_datablock does not raise and
\* each following record decodes to the fields it has in a datablock of
\* its own.
C12_FollowingRecordsIntact ==
    (/\ phase = "parsed"
     /\ HasUnknownFrn(inp.rec)
     /\ inp.rec.unk > 0
     /\ inp.follow # <<>>) =>
        /\ out.exc = "none"
        /\ Len(out.records) >= Len(inp.follow)
        /\ \A i \in 1..Len(inp.follow) :
              out.records[Len(out.records) - Len(inp.follow) + i]
                = parse_datablock(
                      build_datablock(<<RecordBytes(inp.follow[i])>>)).records[1]

(***************************************************************************)
(* Properties of build_cat62_record, of the track number and of the empty  *)
(* FSPEC.                                                                  *)
(***************************************************************************)

\* the FRNs of a record of build_cat62_record
RecordFrns == {1, 2, 3, 4, 6, 12, 14}

\* the offset of the item frn in such a record: the two FSPEC octets and
\* the registered widths of the items of lower FRN
RECURSIVE WidthsBelow(_, _)
WidthsBelow(frns, frn) ==
    IF frns = {} THEN 0
    ELSE LET g == SetMin(frns)
         IN  (IF g < frn THEN FRN_REGISTRY[g].size ELSE 0)
             + WidthsBelow(frns \ {g}, frn)

OffsetInRecord(frn) == 2 + WidthsBelow(RecordFrns, frn)

\* the bytes the encoder of item frn makes of the arguments p
EncodedItem(p, frn) ==
    CASE frn = 1  -> encode_I062_010(p.sac, p.sic)
      [] frn = 2  -> encode_I062_040(p.track_number)
      [] frn = 3  -> encode_I062_070(p.time_of_track_s)
      [] frn = 4  -> encode_I062_105(p.lat, p.lon)
      [] frn = 6  -> encode_I062_185(p.vx, p.vy)
      [] frn = 12 -> encode_I062_136(p.flight_level)
      [] frn = 14 -> encode_I062_220(p.rocd)

C14_TrackNumberMasked ==
    (phase \in {"encoded", "decoded"} /\ inp.item = "I062/040") =>
        LET tn == inp.track_number
        IN  /\ Len(wire) = 2
            /\ wire[1] < 16
            /\ wire[1] * 256 + wire[2] = tn % 4096
            /\ phase = "decoded" =>
                 /\ out = [track_number |-> tn % 4096]
                 /\ tn <= 4095 => out.track_number = tn

\* C14 witness: track number 4097 has been encoded as 0x0001 and decoded
\* to 1.
C14_Witness ==
    /\ phase = "decoded"
    /\ inp.item = "I062/040"
    /\ inp.track_number = 4097
    /\ wire = <<0, 1>>
    /\ out.track_number = 1

\* C15: build_fspec of no item, or of names that are not in the UAP table
\* only, is the single octet 0x00, and _parse_fspec of it returns no FRN
\* and the offset advanced by 1.
C15_EmptyFspec ==
    (phase \in {"fspec", "fspec_parsed"} /\ inp \subseteq {UnknownItemName}) =>
        /\ wire = <<0>>
        /\ phase = "fspec_parsed" =>
             out = [exc |-> "none", frns |-> <<>>, offset |-> 1]

\* C15 witness: the FSPEC of the one unknown name has been built and
\* parsed.
C15_Witness ==
    /\ phase = "fspec_parsed"
    /\ inp = {UnknownItemName}
    /\ wire = <<0>>
    /\ out.frns = <<>>

(***************************************************************************)
(* Properties of the item dispatch of parse_datablock (record chain).      *)
(***************************************************************************)

\* the offset at which the record under test starts in the datablock d
RecordStart(d) ==
    3 + SumLen([i \in 1..Len(d.lead) |-> RecordBytes(d.lead[i])])

\* the offset at which the bytes of its item frn were written
ItemAt(d, frn) ==
    RecordStart(d) + Len(FspecOf(d.rec.frns))
    + Len(ItemsBytes(d.rec, Ascending({g \in d.rec.frns : g < frn})))

\* the record under test in the result
RecordUnderTest == out.records[Len(inp.lead) + 1]

NotDecoded == [note |-> "present but not decoded"]

\* C16: with FRN 10 declared and its 2 bytes within the declared length,
\* parse_datablock marks I062/380 as present but not decoded and advances
\* the offset by exactly 2 whatever the primary subfield indicator is: the
\* next declared item, and the records after, are read right after those
\* 2 bytes.
C16_CompoundSkipsIndicator ==
    (phase = "parsed" /\ 10 \in inp.rec.frns /\ inp.rec.unk = 0) =>
        LET at == ItemAt(inp, 10)
        IN  /\ item_loop(wire, DeclaredLength(wire), <<10>>, at,
                         [fspec_hex |-> ""])
                 = [exc |-> "none", offset |-> at + 2,
                    record |-> ("I062/380" :> NotDecoded)
                               @@ [fspec_hex |-> ""]]
            /\ out.exc = "none"
            /\ Len(out.records) = Len(DescList(inp))
            /\ RecordUnderTest["I062/380"] = NotDecoded
            /\ \A f \in inp.rec.frns \cap {12, 14} :
                  LET fields == ApplyDecoder(FRN_REGISTRY[f].decoder,
                                    Slice(wire, ItemAt(inp, f),
                                          ItemAt(inp, f) + 2))
                  IN  \A k \in DOMAIN fields : RecordUnderTest[k] = fields[k]
            /\ \A f \in inp.rec.frns : f > 10 => ItemAt(inp, f) >= at + 2
            /\ SubSeq(out.records, Len(inp.lead) + 2, Len(out.records))
                 = ExpectedRecords(inp.follow)

\* C16 witness: a record declaring FRN 10 with indicator 0xFFFF and FRN 12
\* has been parsed: the marker is set and the flight level is read from
\* the bytes 0xCD 0xCE that follow the indicator.
C16_Witness ==
    /\ phase = "parsed"
    /\ inp.rec.frns = {10, 12}
    /\ inp.rec.primary = 65535
    /\ inp.rec.fill = 0
    /\ Len(inp.follow) = 1
    /\ Slice(wire, ItemAt(inp, 10), ItemAt(inp, 10) + 4) = <<255, 255, 205, 206>>
    /\ out.exc = "none"
    /\ RecordUnderTest["I062/380"] = NotDecoded
    /\ RecordUnderTest.measured_flight_level = -12850 * FL_LSB

\* the datablock raw with the FSPEC bit of FRN 11 (weight 0x10 of the
\* second octet) cleared in the record that starts at offset start
ClearSpareBit(raw, start) ==
    [raw EXCEPT ![start + 2] = raw[start + 2] - 16]

\* a result without the fspec_hex of its k-th record
WithoutFspecHex(result, k) ==
    IF result.exc # "none" THEN result
    ELSE [exc |-> "none",
          records |->
            [i \in 1..Len(result.records) |->
               IF i = k
               THEN [x \in DOMAIN result.records[i] \ {"fspec_hex"} |->
                        result.records[i][x]]
               ELSE result.records[i]]]

\* C17: a set FSPEC bit of the spare FRN 11 is accepted and consumes no
\* byte: the record decodes to the same fields and ends at the same offset
\* as the record with that bit alone cleared (fspec_hex apart), and so
\* does the rest of the datablock.
C17_SpareConsumesNothing ==
    (phase = "parsed" /\ 11 \in inp.rec.frns) =>
        LET start == RecordStart(inp)
            L == DeclaredLength(wire)
            fs == parse_fspec(wire, start)
            no11 == SelectSeq(fs.frns, LAMBDA f : f # 11)
            cleared == ClearSpareBit(wire, start)
        IN  /\ fs.exc = "none"
            /\ parse_fspec(cleared, start)
                 = [exc |-> "none", frns |-> no11, offset |-> fs.offset]
            /\ item_loop(wire, L, fs.frns, fs.offset, [fspec_hex |-> ""])
                 = item_loop(cleared, L, no11, fs.offset, [fspec_hex |-> ""])
            /\ WithoutFspecHex(out, Len(inp.lead) + 1)
                 = WithoutFspecHex(parse_datablock(cleared), Len(inp.lead) + 1)

\* C17 witness: a record declaring FRN 11 and FRN 12 (FSPEC 01 18) has
\* been parsed to the flight level read right after the FSPEC, and the
\* record after it is there.
C17_Witness ==
    /\ phase = "parsed"
    /\ inp.rec.frns = {11, 12}
    /\ inp.rec.fill = 0
    /\ Len(inp.follow) = 1
    /\ out.exc = "none"
    /\ Len(out.records) = Len(inp.lead) + 2
    /\ RecordUnderTest
         = [fspec_hex |-> "0118", measured_flight_level |-> -12850 * FL_LSB]

\* the fields the decoder of the item frn adds to a record
FieldNames(frn) ==
    CASE frn = 1  -> {"sac", "sic"}
      [] frn = 2  -> {"track_number"}
      [] frn = 3  -> {"time_of_track_seconds"}
      [] frn = 4  -> {"lat", "lon"}
      [] frn = 6  -> {"vx", "vy"}
      [] frn = 12 -> {"measured_flight_level"}
      [] frn = 14 -> {"rocd"}
      [] OTHER    -> {}

\* the widths of the items without a decoder
SkippedWidth == (5 :> 6) @@ (7 :> 4) @@ (8 :> 2) @@ (9 :> 7) @@ (13 :> 2)

\* C18: for a declared FRN whose registry entry has no decoder (FRN 5, 7,
\* 8, 9, 13 of widths 6, 4, 2, 7, 2) parse_datablock advances the offset by
\* the registered width, adds no field and raises nothing; for an FRN with
\* a decoder it consumes the registered width and merges the decoder's
\* fields into the record.
C18_RegisteredWidthConsumed ==
    (phase = "parsed" /\ inp.rec.frns \subseteq DOMAIN FRN_REGISTRY) =>
        /\ out = [exc |-> "none", records |-> ExpectedRecords(DescList(inp))]
        /\ DOMAIN RecordUnderTest
             = {"fspec_hex"} \cup UNION {FieldNames(f) : f \in inp.rec.frns}
        /\ \A f \in inp.rec.frns :
              LET e == FRN_REGISTRY[f]
                  at == ItemAt(inp, f)
                  r == item_loop(wire, DeclaredLength(wire), <<f>>, at,
                                 [fspec_hex |-> ""])
              IN  /\ r.exc = "none"
                  /\ r.offset = at + e.size
                  /\ f \in DOMAIN SkippedWidth =>
                       /\ e.size = SkippedWidth[f]
                       /\ r.record = [fspec_hex |-> ""]
                  /\ f \notin DOMAIN SkippedWidth =>
                       r.record
                         = ApplyDecoder(e.decoder, Slice(wire, at, at + e.size))
                           @@ [fspec_hex |-> ""]

\* C18 witness: a record declaring FRN 9 (7 bytes, no decoder) and FRN 12
\* (FSPEC 01 48) has been parsed to the flight level alone, read after the
\* 7 skipped bytes.
C18_Witness ==
    /\ phase = "parsed"
    /\ inp.rec.frns = {9, 12}
    /\ inp.rec.fill = 0
    /\ ItemAt(inp, 12) = ItemAt(inp, 9) + 7
    /\ out.exc = "none"
    /\ RecordUnderTest
         = [fspec_hex |-> "0148", measured_flight_level |-> -12850 * FL_LSB]

(***************************************************************************)
(* Properties of _parse_fspec and of the failures of parse_datablock.      *)
(***************************************************************************)

\* the 1-based positions, from offset on, of the octets of data with FX = 0
FxClear(data, offset) == {i \in (offset + 1)..Len(data) : data[i] % 2 = 0}

\* the FRNs of the set bits of weight 2^p, p = 1..7, of the octets
\* first..last of data, octet first + k giving FRN 7k + (8 - p)
FrnsOfBits(data, first, last) ==
    {7 * k + (8 - p) :
        <<k, p>> \in {kp \in (0..(last - first)) \X (1..7) :
                        (data[first + kp[1]] \div Shl1(kp[2])) % 2 = 1}}

\* C19: on bytes that hold an octet with FX = 0, _parse_fspec returns a
\* strictly ascending list of FRNs, the set bit of weight 2^p (p = 1..7)
\* of the k-th octet giving FRN 7k + (8 - p) and the bit of weight 1 none,
\* and the offset just after the first octet whose FX bit is clear.
C19_FspecFrnsAscending ==
    (phase = "octets_parsed" /\ FxClear(wire, inp) # {}) =>
        LET last == SetMin(FxClear(wire, inp))
        IN  /\ out.exc = "none"
            /\ out.offset = last
            /\ \A i \in 1..Len(out.frns) : \A j \in 1..Len(out.frns) :
                  i < j => out.frns[i] < out.frns[j]
            /\ {out.frns[i] : i \in 1..Len(out.frns)}
                 = FrnsOfBits(wire, inp + 1, last)

\* C19 witness: the octets AA 81 02 parsed from offset 1 give FRN 1 from
\* 0x81 and FRN 14 from 0x02, and offset 3.
C19_Witness ==
    /\ phase = "octets_parsed"
    /\ wire = <<170, 129, 2>>
    /\ inp = 1
    /\ out = [exc |-> "none", frns |-> <<1, 14>>, offset |-> 3]

\* C20: on every buffer parse_datablock returns a list of records or
\* raises the structural-fault error ValueError; no other failure reaches
\* the caller.
C20_OnlyStructuralFaults ==
    phase = "parsed" => out.exc \in {"none", "ValueError"}

(***************************************************************************)
(* Properties of the loop chain.                                           *)
(***************************************************************************)

Running == phase \in {"while", "fspec", "items"}

Finished == phase \in {"returned", "raised"}

\* what one step does to the offset
LoopProgress ==
    /\ (Running /\ phase' \in {"while", "fspec", "items"}) =>
          out'.offset >= out.offset
    /\ (phase = "fspec" /\ phase' \in {"fspec", "items"}) =>
          out'.offset = out.offset + 1
    /\ phase = "fspec" =>
          /\ phase' = "raised" <=> out.offset >= Len(wire)
          /\ phase' = "items" <=>
                (out.offset < Len(wire) /\ wire[out.offset + 1] % 2 = 0)
    /\ (phase = "items" /\ phase' = "while") =>
          /\ out'.offset >= out.record_start + 1
          /\ Len(out'.records) = Len(out.records) + 1

\* the records collected never outnumber the bytes consumed after the
\* header
RecordsWithinOffset == Running => Len(out.records) <= out.offset - 3

\* the records returned are at most the bytes the declared length leaves
\* after the header, none when it leaves none
RecordsBounded ==
    /\ RecordsWithinOffset
    /\ phase = "returned" =>
          Len(out.records)
            <= (IF declared_length_of(wire) > 3
                THEN declared_length_of(wire) - 3 ELSE 0)

\* the records returned are at most declared length - 3
RecordsBoundedByLength ==
    /\ RecordsWithinOffset
    /\ phase = "returned" =>
          Len(out.records) <= declared_length_of(wire) - 3

\* C21: parse_datablock terminates on every buffer: each iteration of the
\* record loop moves the offset forward by at least the one byte of the
\* FSPEC, the offset never decreases, the FSPEC loop ends at the first
\* octet with FX = 0 or at the end of the buffer, and the call ends, with
\* the result of parse_datablock, having returned at most declared length
\* - 3 records when the declared length is above 3 and no record when it
\* is 3 or less.
C21_ParseTerminates ==
    /\ [][LoopProgress]_vars
    /\ [](RecordsBounded)
    /\ [](Finished => out = parse_datablock(wire))
    /\ <>Finished

\* C21 as stated: the same, the records returned being at most declared
\* length - 3 for every declared length (refuted by a declared length
\* below 3, where no record is returned and declared length - 3 is
\* negative).
C21_ParseTerminatesAsStated ==
    /\ [][LoopProgress]_vars
    /\ [](RecordsBoundedByLength)
    /\ [](Finished => out = parse_datablock(wire))
    /\ <>Finished

\* C21 witness: the buffer 3E 00 06 00 00 00 has been parsed in three
\* iterations to three empty records, declared length - 3.
C21_Witness ==
    /\ phase = "returned"
    /\ wire = <<62, 0, 6, 0, 0, 0>>
    /\ Len(out.records) = 3

(***************************************************************************)
(* Properties of the block chain.                                          *)
(***************************************************************************)

\* C22: build_datablock never emits a header whose 2-byte length field
\* differs from 3 + payload length: when 3 + payload length exceeds 65535
\* (2622 records of 25 bytes or more) the call fails instead of writing
\* the length modulo 2^16.
C22_LengthFieldNeverWraps ==
    phase = "datablock" =>
        LET total == 3 + 25 * Len(inp)
        IN  /\ total > 65535 => wire = StructError
            /\ total <= 65535 =>
                 /\ wire # StructError
                 /\ Len(wire) = total
                 /\ wire[1] = 62
                 /\ wire[2] * 256 + wire[3] = total

\* C22 witness: build_datablock has failed on the records of 2622 plots
\* (3 + 65550 bytes).
C22_Witness ==
    /\ phase = "datablock"
    /\ Len(inp) = 2622
    /\ wire = StructError

\* C23: a buffer of at least 3 bytes of category 62 whose declared length
\* is 0, 1, 2 or 3 is accepted: parse_datablock returns no record and
\* reads no byte after the header, whatever bytes follow it.
C23_HeaderOnlyLengthAccepted ==
    (/\ phase = "parsed"
     /\ Len(wire) >= 3
     /\ wire[1] = 62
     /\ DeclaredLength(wire) <= 3) =>
        /\ out = [exc |-> "none", records |-> <<>>]
        /\ out = parse_datablock(SubSeq(wire, 1, 3))

\* C23 witness: the buffer 3E 00 02 80 00 01, a declared length of 2
\* followed by a well-formed record, has been parsed to no record.
C23_Witness ==
    /\ phase = "parsed"
    /\ wire = <<62, 0, 2, 128, 0, 1>>
    /\ out = [exc |-> "none", records |-> <<>>]

=============================================================================
